---- MODULE Spec2Model ----
(***************************************************************************)
(* Model of the pseudoprimes package: factored integers and their divisor  *)
(* enumeration (factorization.py, partitioned_divisors_iterator.py), trial *)
(* division (trial_division.py), the Fellows-Koblitz primality test        *)
(* (fellows_koblitz.py) and the Erdos prime-set constructions              *)
(* (erdos_construction.py, erdos_construction_varient.py).                 *)
(*                                                                         *)
(* Representation.  A Python dict {p1: e1, ...} is the sequence of its     *)
(* items <<p1, e1>>, ... in insertion order.  A Factorization object is    *)
(* its private field __factors.  Optional values: None is <<>> and a       *)
(* value x that is not None is <<x>>.  The outcome of a call is            *)
(* Return(v) or Raise(e).                                                  *)
(***************************************************************************)
EXTENDS Integers, Sequences, FiniteSets, TLC

(* ---- bounds of the model ---- *)
MaxValue == 36          \* integers handed to Factorization(value=...) for the divisor iterator
MaxExtraCalls == 3      \* next() calls made after the first StopIteration
MaxPartitions == 5      \* largest partitions_count tried
MaxNegated == 2         \* the arguments of is_prime and factor go down to -MaxNegated
MaxN == 341             \* largest n handed to the Fellows-Koblitz is_prime
MaxFactored == 120      \* largest n handed to trial_division.factor
MaxL == 60              \* largest base L handed to the prime-set constructions
MaxOrder == 2           \* largest order handed to the higher-order construction
MaxErdosPartitions == 3 \* largest partitions_count handed to build_primes_set_partition
MaxKey == 7             \* largest key of a mapping handed to Factorization(factors=...)
MaxExponent == 2        \* largest exponent of such a mapping; the least is -MaxNegated
MaxItems == 2           \* most items of such a mapping
MaxPrimorialArg == 300  \* largest n handed to find_largest_primorial_less_than
MaxModulus == 4         \* largest modulus of a ModularProduct
MaxFactor == 3          \* largest integer multiplied into a ModularProduct
MaxFactors == 3         \* most factors of a ModularProduct
MaxOrderModulus == 61   \* largest n handed to order(a, n, factorization)
MaxOrderBase == 61
MaxGenerateValue == 36
MaxLimit == 40      \* largest a handed to order(a, n, factorization)

VARIABLES
    primes,             \* DivisorsIterator.__primes
    exponents,          \* DivisorsIterator.__exponents
    divisor_exponents,  \* DivisorsIterator.__divisor_exponents (None or a list)
    returned,           \* outcomes of the __next__ calls made so far, in order
    pd_factorization,   \* the factorization handed to PartitionedDivisorsIterator
    partitions_count,   \* its partitions_count
    partition_outcome,  \* partition_index -> outcome of building and listing that partition
    fk_frame,           \* the running call of fellows_koblitz.is_prime: its arguments, locals and outcome
    erdos_input,        \* the arguments of the prime-set constructions: factorization, order, partitions_count
    base_primes,        \* outcome of erdos_construction.build_primes_set(factorization)
    order_primes,       \* outcome of erdos_construction_varient.build_primes_set(factorization, order)
    partition_primes,   \* partition_index -> outcome of build_primes_set_partition
    factor_frame,       \* the running call of trial_division.factor: its argument, locals and outcome
    ff_frame,           \* the call Factorization(factors=m): its argument and outcome
    primorial_frame,    \* the running call of find_largest_primorial_less_than: argument, locals, outcome
    modular_product,    \* the latest ModularProduct(...) construction: how it was made and its outcome
    order_frame,        \* the call order(a, n, factorization): its arguments and outcome
    prover_calls,       \* the calls is_prime(n, factorization) the two higher-order constructors have made
    generate_frame      \* the call list(_generate_divisors_less_than(factorization, limit)): arguments and outcome

vars_div == <<primes, exponents, divisor_exponents, returned>>
vars_pd == <<pd_factorization, partitions_count, partition_outcome>>
vars_erdos == <<erdos_input, base_primes, order_primes, partition_primes, prover_calls>>
vars == <<primes, exponents, divisor_exponents, returned,
          pd_factorization, partitions_count, partition_outcome, fk_frame,
          erdos_input, base_primes, order_primes, partition_primes, factor_frame,
          ff_frame, primorial_frame, modular_product, order_frame, generate_frame,
          prover_calls>>
vars_core == <<vars_div, vars_pd, fk_frame, vars_erdos, factor_frame>>
vars_calls == <<ff_frame, primorial_frame, modular_product, order_frame, generate_frame>>

(* ---- Python values ---- *)
None == <<>>
Some(x) == <<x>>
Return(v) == [status |-> "returned", value |-> v]
Raise(e) == [status |-> "raised", error |-> e]
Pending == [status |-> "pending"]
Raised(r, e) == r.status = "raised" /\ r.error = e
Returned(r) == r.status = "returned"

Range(s) == {s[i] : i \in 1..Len(s)}

(* the elements of a set of integers, ascending *)
RECURSIVE SetToSeq(_)
SetToSeq(S) ==
    IF S = {} THEN <<>>
    ELSE LET x == CHOOSE y \in S : \A z \in S : y <= z
         IN <<x>> \o SetToSeq(S \ {x})

(* dict helpers: items in insertion order, keys unique *)
keys(m) == [i \in 1..Len(m) |-> m[i][1]]
values(m) == [i \in 1..Len(m) |-> m[i][2]]
zip(ks, vs) == [i \in 1..(IF Len(ks) < Len(vs) THEN Len(ks) ELSE Len(vs)) |-> <<ks[i], vs[i]>>]
has_key(m, k) == \E i \in 1..Len(m) : m[i][1] = k
dict_get(m, k, default) == IF has_key(m, k) THEN m[CHOOSE i \in 1..Len(m) : m[i][1] = k][2] ELSE default
dict_set(m, k, v) ==
    IF has_key(m, k) THEN [i \in 1..Len(m) |-> IF m[i][1] = k THEN <<k, v>> ELSE m[i]]
    ELSE Append(m, <<k, v>>)

(* dict(zip(ks, vs)): later duplicates of a key overwrite the value in place *)
RECURSIVE dict_of_items(_, _)
dict_of_items(acc, items) ==
    IF items = <<>> THEN acc
    ELSE dict_of_items(dict_set(acc, items[1][1], items[1][2]), Tail(items))

(* a | b on dicts *)
dict_union(a, b) == dict_of_items(a, b)

(* n is prime, by definition *)
IsPrime(n) == n >= 2 /\ \A d \in 2..(n - 1) : n % d # 0

(* math.isqrt *)
isqrt(n) == CHOOSE s \in 0..n : s * s <= n /\ (s + 1) * (s + 1) > n

(* ---- trial_division.py ---- *)
td_is_prime_short(n) ==
    IF n < 2 THEN FALSE
    ELSE IF n = 2 THEN TRUE
    ELSE IF n % 2 = 0 THEN FALSE
    ELSE \A d \in {x \in 3..(isqrt(n) - 1) : x % 2 = 1} : n % d # 0

td_is_prime(n) ==
    IF n < 2 THEN FALSE
    ELSE IF n = 2 THEN TRUE
    ELSE IF n % 2 = 0 THEN FALSE
    ELSE \A d \in {x \in 3..isqrt(n) : x % 2 = 1} : n % d # 0

RECURSIVE get_factor_loop(_, _, _)
get_factor_loop(n, d, e) ==
    IF n % d = 0 THEN get_factor_loop(n \div d, d, e + 1) ELSE <<n, d, e>>

get_factor(n, d) == get_factor_loop(n, d, 0)

(* one step of factor(n) on its local variables; pc names the loop it is in *)
factor_begin(n) ==
    IF n < 1
    THEN [value |-> n, n |-> n, d |-> 2, factors |-> <<>>, pc |-> "done", result |-> Raise("ValueError")]
    ELSE [value |-> n, n |-> n, d |-> 2, factors |-> <<>>, pc |-> "twos", result |-> Pending]

factor_step_no_rest(st) ==
    CASE st.pc = "twos" ->
            IF st.n % st.d = 0
            THEN LET r == get_factor(st.n, st.d)
                 IN [st EXCEPT !.n = r[1], !.d = r[2], !.factors = dict_set(st.factors, r[2], r[3])]
            ELSE [st EXCEPT !.d = 3, !.pc = "odds"]
      [] st.pc = "odds" ->
            IF st.d ^ 2 <= st.n /\ st.n > 1
            THEN IF st.n % st.d = 0
                 THEN LET r == get_factor(st.n, st.d)
                      IN [st EXCEPT !.n = r[1], !.d = r[2] + 2,
                                    !.factors = dict_set(st.factors, r[2], r[3])]
                 ELSE [st EXCEPT !.d = st.d + 2]
            ELSE [st EXCEPT !.pc = "rest"]
      [] st.pc = "rest" -> [st EXCEPT !.pc = "done", !.result = Return(st.factors)]
      [] OTHER -> st

factor_step(st) ==
    CASE st.pc = "twos" ->
            IF st.n % st.d = 0
            THEN LET r == get_factor(st.n, st.d)
                 IN [st EXCEPT !.n = r[1], !.d = r[2], !.factors = dict_set(st.factors, r[2], r[3])]
            ELSE [st EXCEPT !.d = 3, !.pc = "odds"]
      [] st.pc = "odds" ->
            IF st.d ^ 2 <= st.n /\ st.n > 1
            THEN IF st.n % st.d = 0
                 THEN LET r == get_factor(st.n, st.d)
                      IN [st EXCEPT !.n = r[1], !.d = r[2] + 2,
                                    !.factors = dict_set(st.factors, r[2], r[3])]
                 ELSE [st EXCEPT !.d = st.d + 2]
            ELSE [st EXCEPT !.pc = "rest"]
      [] st.pc = "rest" ->
            IF st.n # 1
            THEN [st EXCEPT !.factors = dict_set(st.factors, st.n, 1), !.pc = "done",
                            !.result = Return(dict_set(st.factors, st.n, 1))]
            ELSE [st EXCEPT !.pc = "done", !.result = Return(st.factors)]
      [] OTHER -> st

RECURSIVE factor_run(_)
factor_run(st) == IF st.pc = "done" THEN st ELSE factor_run(factor_step(st))

factor(n) == factor_run(factor_begin(n)).result

(* ---- factorization.py: Factorization ---- *)
validate(factors) ==
    \A i \in 1..Len(factors) : td_is_prime(factors[i][1]) /\ ~(factors[i][2] < 0)

to_standard_form_unsorted(factors) == SelectSeq(factors, LAMBDA it : it[2] > 0)

to_standard_form(factors) ==
    SelectSeq(SortSeq(factors, LAMBDA x, y : x[1] < y[1]), LAMBDA it : it[2] > 0)

(* Factorization(factors=m) *)
Factorization(factors) ==
    IF validate(factors) THEN Return(to_standard_form(factors)) ELSE Raise("ValueError")

(* Factorization(value=n) *)
FactorizationOfValue(n) == factor(n)

RECURSIVE Factorization_int(_)
Factorization_int(f) ==
    IF f = <<>> THEN 1 ELSE (f[1][1] ^ f[1][2]) * Factorization_int(Tail(f))

RECURSIVE divisors_count(_)
divisors_count(f) ==
    IF f = <<>> THEN 1 ELSE (f[1][2] + 1) * divisors_count(Tail(f))

has_prime_divisor(f, n) == has_key(f, n)

(* ---- factorization.py: DivisorsIterator ---- *)
build_factors(ps, dexp) == [i \in 1..Len(dexp) |-> <<ps[i], dexp[i]>>]

(* the for loop of __next__ from index i on: stop is TRUE when the loop ran off its end *)
RECURSIVE next_loop_keep(_, _, _)
next_loop_keep(dexp, exps, i) ==
    IF i > Len(exps) THEN [dexp |-> dexp, stop |-> TRUE]
    ELSE IF dexp[i] < exps[i] THEN [dexp |-> [dexp EXCEPT ![i] = @ + 1], stop |-> FALSE]
    ELSE next_loop_keep(dexp, exps, i + 1)

RECURSIVE next_loop(_, _, _)
next_loop(dexp, exps, i) ==
    IF i > Len(exps) THEN [dexp |-> dexp, stop |-> TRUE]
    ELSE IF dexp[i] < exps[i] THEN [dexp |-> [dexp EXCEPT ![i] = @ + 1], stop |-> FALSE]
    ELSE next_loop([dexp EXCEPT ![i] = 0], exps, i + 1)

(* __next__ as a function of the iterator's fields: the new counters and the outcome *)
DivisorsIterator_next(ps, exps, dexp) ==
    IF dexp = None
    THEN LET zeros == [i \in 1..Len(exps) |-> 0]
         IN [dexp |-> Some(zeros), result |-> Factorization(build_factors(ps, zeros))]
    ELSE LET r == next_loop(dexp[1], exps, 1)
         IN [dexp |-> Some(r.dexp),
             result |-> IF r.stop THEN Raise("StopIteration")
                        ELSE Factorization(build_factors(ps, r.dexp))]

(* list(DivisorsIterator(f)): the values up to the first StopIteration *)
RECURSIVE iterate(_, _, _, _)
iterate(ps, exps, dexp, acc) ==
    LET r == DivisorsIterator_next(ps, exps, dexp)
    IN IF Raised(r.result, "StopIteration") THEN acc
       ELSE iterate(ps, exps, r.dexp, Append(acc, r.result.value))

divisors(f) == iterate(keys(f), values(f), None, <<>>)

(* ---- lists.py ---- *)
split_equally(vals, sublists_count) ==
    LET base_size == Len(vals) \div sublists_count
        remainder == Len(vals) % sublists_count
        min(x, y) == IF x < y THEN x ELSE y
    IN [k \in 1..sublists_count |->
            LET i == k - 1
            IN SubSeq(vals, i * base_size + min(i, remainder) + 1,
                            (i + 1) * base_size + min(i + 1, remainder))]

(* ---- partitioned_divisors_iterator.py ---- *)
(* __get_partition_keys_index: the 0-based index, or None when the loop ends without a return *)
RECURSIVE partition_keys_index_loop(_, _, _, _)
partition_keys_index_loop(exps, index, product, count) ==
    IF index >= Len(exps) THEN None
    ELSE LET p == product * (exps[index + 1] + 1)
         IN IF p >= count THEN Some(index)
            ELSE partition_keys_index_loop(exps, index + 1, p, count)

get_partition_keys_index(f, count) == partition_keys_index_loop(values(f), 0, 1, count)

(* __get_partition_keys_and_remaining_factorizations: None + 1 is a TypeError *)
get_partition_keys_and_remaining_factorizations(f, count) ==
    LET partition_keys_index == get_partition_keys_index(f, count)
    IN IF partition_keys_index = None THEN Raise("TypeError")
       ELSE LET n == partition_keys_index[1] + 1
                partition_keys_factors == zip(SubSeq(keys(f), 1, n), SubSeq(values(f), 1, n))
                remaining_factors == zip(SubSeq(keys(f), n + 1, Len(f)), SubSeq(values(f), n + 1, Len(f)))
            IN Return(<<Factorization(partition_keys_factors).value,
                        Factorization(remaining_factors).value>>)

get_partition_key_factorizations(partition_keys_factorization, index, count) ==
    split_equally(divisors(partition_keys_factorization), count)[index + 1]

(* __iter__: for every key divisor, every divisor of the remaining factorization *)
RECURSIVE partition_iter(_, _, _)
partition_iter(partition_key_factorizations, remaining_divisors, acc) ==
    IF partition_key_factorizations = <<>> THEN acc
    ELSE LET key == Head(partition_key_factorizations)
             row == [j \in 1..Len(remaining_divisors) |->
                        Factorization(dict_union(key, remaining_divisors[j])).value]
         IN partition_iter(Tail(partition_key_factorizations), remaining_divisors, acc \o row)

(* list(PartitionedDivisorsIterator(f, index, count)) *)
PartitionedDivisorsIterator(f, index, count) ==
    LET split == get_partition_keys_and_remaining_factorizations(f, count)
    IN IF ~Returned(split) THEN split
       ELSE Return(partition_iter(
                get_partition_key_factorizations(split.value[1], index, count),
                divisors(split.value[2]), <<>>))

(* lcm(a, b): the larger exponent over the union of the primes *)
max(x, y) == IF x > y THEN x ELSE y

lcm_min(a, b) ==
    LET ps == SetToSeq(Range(keys(a)) \cup Range(keys(b)))
        lesser(x, y) == IF x < y THEN x ELSE y
    IN Factorization([i \in 1..Len(ps) |->
            <<ps[i], lesser(dict_get(a, ps[i], 0), dict_get(b, ps[i], 0))>>]).value

lcm(a, b) ==
    LET ps == SetToSeq(Range(keys(a)) \cup Range(keys(b)))
    IN Factorization([i \in 1..Len(ps) |->
            <<ps[i], max(dict_get(a, ps[i], 0), dict_get(b, ps[i], 0))>>]).value

(* ---- integers.py ---- *)
sub_mod(a, b, n) ==
    LET t == (a % n) - (b % n)
    IN IF t < 0 THEN t + n ELSE IF t > n THEN t - n ELSE t

(* ---- builtins used by fellows_koblitz.py ---- *)
(* pow(b, e, m) for e >= 0 *)
RECURSIVE pow(_, _, _)
pow(b, e, m) ==
    IF e = 0 THEN 1 % m
    ELSE IF e % 2 = 0 THEN LET r == pow(b, e \div 2, m) IN (r * r) % m
    ELSE (b * pow(b, e - 1, m)) % m

(* math.gcd *)
RECURSIVE gcd(_, _)
gcd(a, b) == IF b = 0 THEN a ELSE gcd(b, a % b)

(* math.floor(math.log(n) ** 2) for n >= 1: the number of k >= 1 with
   e^sqrt(k) <= n; entry k of the table is the least integer >= e^sqrt(k) *)
ExpSqrtCeil ==
    <<3, 5, 6, 8, 10, 12, 15, 17, 21, 24, 28, 32, 37, 43, 49, 55, 62, 70, 79, 88,
      98, 109, 122, 135, 149, 164, 181, 199, 219, 240, 262, 287, 313, 341, 371,
      404, 439, 476, 516, 559>>

log_squared_floor(n) == Cardinality({k \in 1..Len(ExpSqrtCeil) : ExpSqrtCeil[k] <= n})

(* ---- fellows_koblitz.py ---- *)
(* the argument handed over as `factorization`: a Factorization or an int *)
FactorizationObject(f) == [type |-> "Factorization", factors |-> f]
IntObject(i) == [type |-> "int", int |-> i]

(* __get_order_exponent: the while loop from t, g on *)
RECURSIVE get_order_exponent_loop_from_one(_, _, _, _)
get_order_exponent_loop_from_one(t, g, n, prime) ==
    IF t # 1 THEN get_order_exponent_loop_from_one(pow(t, prime, n), g + 1, n, prime) ELSE g + 1

RECURSIVE get_order_exponent_loop(_, _, _, _)
get_order_exponent_loop(t, g, n, prime) ==
    IF t # 1 THEN get_order_exponent_loop(pow(t, prime, n), g + 1, n, prime) ELSE g

get_order_exponent_full(a, n, prime, exponent) == exponent

get_order_exponent(a, n, prime, exponent) ==
    get_order_exponent_loop(pow(a, (n - 1) \div (prime ^ exponent), n), 0, n, prime)

(* order(a, n, factorization): an int has no primes() *)
order(a, n, factorization) ==
    IF factorization.type # "Factorization" THEN Raise("AttributeError")
    ELSE LET f == factorization.factors
         IN Factorization([i \in 1..Len(f) |->
                <<f[i][1], get_order_exponent(a, n, f[i][1], f[i][2])>>])

(* is_prime(n, factorization) up to the for loop *)
is_prime_begin_odd_unchecked(n, factorization) ==
    LET call == [n |-> n, factorization |-> factorization, a |-> 2, h |-> None,
                 order_factorization |-> None]
    IN IF n \in {2, 3} THEN call @@ [pc |-> "done", result |-> Return(TRUE)]
       ELSE IF n < 2 THEN call @@ [pc |-> "done", result |-> Return(FALSE)]
       ELSE call @@ [pc |-> "for", result |-> Pending]

is_prime_begin(n, factorization) ==
    LET call == [n |-> n, factorization |-> factorization, a |-> 2, h |-> None,
                 order_factorization |-> None]
    IN IF n \in {2, 3} THEN call @@ [pc |-> "done", result |-> Return(TRUE)]
       ELSE IF n < 2 \/ n % 2 = 0 THEN call @@ [pc |-> "done", result |-> Return(FALSE)]
       ELSE call @@ [pc |-> "for", result |-> Pending]

(* one pass of the for loop over a, or the return after it *)
is_prime_step(st) ==
    LET done(r) == [st EXCEPT !.pc = "done", !.result = r]
    IN IF st.a >= log_squared_floor(st.n) + 1
       THEN IF st.h = None THEN done(Raise("TypeError"))
            ELSE done(Return(Factorization_int(st.h[1]) >= isqrt(st.n) + 1))
       ELSE IF pow(st.a, st.n - 1, st.n) # 1 THEN done(Return(FALSE))
       ELSE LET order_factorization == order(st.a, st.n, st.factorization)
            IN IF ~Returned(order_factorization) THEN done(order_factorization)
               ELSE LET order_value == Factorization_int(order_factorization.value)
                        qs == keys(order_factorization.value)
                        assigned == [st EXCEPT !.order_factorization = Some(order_factorization.value)]
                    IN IF \E i \in 1..Len(qs) :
                            gcd(sub_mod(pow(st.a, order_value \div qs[i], st.n), 1, st.n), st.n) > 1
                       THEN [assigned EXCEPT !.pc = "done", !.result = Return(FALSE)]
                       ELSE [assigned EXCEPT !.a = st.a + 1,
                                       !.h = IF st.h = None THEN Some(order_factorization.value)
                                             ELSE Some(lcm(st.h[1], order_factorization.value))]

RECURSIVE is_prime_run(_)
is_prime_run(st) == IF st.pc = "done" THEN st ELSE is_prime_run(is_prime_step(st))

fk_is_prime(n, factorization) == is_prime_run(is_prime_begin(n, factorization)).result

(* ---- sieve_of_eratosthenes.py ---- *)
(* the inner for loop: is_prime[m] = False for m = from, from + step, ... below n *)
RECURSIVE strike_multiples(_, _, _, _)
strike_multiples(flags, from, step, n) ==
    IF from >= n THEN flags
    ELSE strike_multiples([flags EXCEPT ![from] = FALSE], from + step, step, n)

(* the outer for loop from potential_prime on; flags[i] is is_prime[i] *)
RECURSIVE sieve_loop(_, _, _)
sieve_loop(flags, potential_prime, n) ==
    IF potential_prime > isqrt(n) THEN flags
    ELSE sieve_loop(IF flags[potential_prime]
                    THEN strike_multiples(flags, potential_prime ^ 2, potential_prime, n)
                    ELSE flags,
                    potential_prime + 1, n)

(* primes_less_than(n), n >= 0: the set, listed as CPython iterates a set of
   small ints, by ascending value *)
primes_less_than(n) ==
    LET flags == sieve_loop([i \in 0..(n - 1) |-> TRUE], 2, n)
    IN SetToSeq({p \in 2..(n - 1) : flags[p]})

(* ---- primorial.py ---- *)
(* int.bit_length for n >= 0 *)
RECURSIVE bit_length(_)
bit_length(n) == IF n = 0 THEN 0 ELSE 1 + bit_length(n \div 2)

primorial_begin(n) ==
    [n |-> n, primes |-> primes_less_than(bit_length(n) - 1), primorial |-> 1,
     primorial_primes |-> <<>>, pc |-> "for", result |-> Pending]

(* one pass of the for loop over the primes left, or the return after it *)
primorial_step(st) ==
    IF st.primes = <<>>
    THEN [st EXCEPT !.pc = "done",
                    !.result = Factorization(dict_of_items(<<>>,
                        zip(st.primorial_primes, [i \in 1..Len(st.primorial_primes) |-> 1])))]
    ELSE LET prime == Head(st.primes)
             primorial == st.primorial * prime
         IN [st EXCEPT !.primes = Tail(st.primes),
                       !.primorial = primorial,
                       !.primorial_primes = IF primorial < st.n THEN Append(@, prime) ELSE @]

RECURSIVE primorial_run(_)
primorial_run(st) == IF st.pc = "done" THEN st ELSE primorial_run(primorial_step(st))

find_largest_primorial_less_than(n) == primorial_run(primorial_begin(n)).result

(* ---- modular_product.py ---- *)
(* the for loop of multiply_modulo over the factors left *)
RECURSIVE multiply_modulo_loop(_, _, _)
multiply_modulo_loop(value, factors, modulus) ==
    IF factors = <<>> THEN value
    ELSE multiply_modulo_loop((value * Head(factors)) % modulus, Tail(factors), modulus)

(* multiply_modulo(factors, modulus): factors is None or a list; None is not iterable *)
multiply_modulo(factors, modulus) ==
    IF factors = None THEN Raise("TypeError")
    ELSE Return(multiply_modulo_loop(1, factors[1], modulus))

(* ModularProduct(modulus, factors): the object's fields, or the exception *)
ModularProduct(modulus, factors) ==
    LET own_factors == IF factors = None \/ factors[1] = <<>> THEN <<>> ELSE factors[1]
        value == multiply_modulo(factors, modulus)
    IN IF ~Returned(value) THEN value
       ELSE Return([modulus |-> modulus, factors |-> own_factors, value |-> value.value])

mul_int(self, n) == ModularProduct(self.modulus, Some(self.factors \o <<n>>))

mul_modular_product(self, other) ==
    IF self.modulus # other.modulus THEN Raise("ValueError")
    ELSE ModularProduct(self.modulus, Some(self.factors \o other.factors))

(* ---- integers.py: int_root ---- *)
RECURSIVE int_root_loop(_, _, _)
int_root_loop(u, n, k) ==
    LET s == u
        t == (k - 1) * s + n \div (s ^ (k - 1))
        u2 == t \div k
    IN IF u2 >= s THEN s ELSE int_root_loop(u2, n, k)

int_root(n, k) == int_root_loop(n, n, k)

(* ---- erdos_construction.py ---- *)
erdos_build_primes_set_any_prime(factorization) ==
    LET ds == divisors(factorization)
    IN {Factorization_int(ds[i]) + 1 : i \in
            {j \in 1..Len(ds) : td_is_prime(Factorization_int(ds[j]) + 1)}}

erdos_build_primes_set(factorization) ==
    LET ds == divisors(factorization)
    IN {Factorization_int(ds[i]) + 1 : i \in
            {j \in 1..Len(ds) : /\ td_is_prime(Factorization_int(ds[j]) + 1)
                                /\ ~has_prime_divisor(factorization, Factorization_int(ds[j]) + 1)}}

(* construct_carmichael_number: the selector, a function on sets of primes,
   is handed the whole prime set *)
construct_carmichael_number(factorization, find_subset) ==
    find_subset[erdos_build_primes_set(factorization)]

(* ---- erdos_construction_varient.py ---- *)
(* int(divisor) for a divisor that is an int or a Factorization *)
object_int(obj) == IF obj.type = "int" THEN obj.int ELSE Factorization_int(obj.factors)

is_valid_prime(p, divisor, factorization, ord, value) ==
    IF has_prime_divisor(factorization, p) THEN Return(FALSE)
    ELSE IF ~(\A r \in 1..ord : value % (p ^ r - 1) = 0) THEN Return(FALSE)
    ELSE fk_is_prime(p, divisor)

(* the for loop of _build_primes_set_for_divisors: an exception ends it *)
RECURSIVE build_primes_set_loop(_, _, _, _, _)
build_primes_set_loop(factorization, ord, value, ds, found) ==
    IF ds = <<>> THEN Return(found)
    ELSE LET p == object_int(Head(ds)) + 1
             valid == is_valid_prime(p, Head(ds), factorization, ord, value)
         IN IF ~Returned(valid) THEN valid
            ELSE build_primes_set_loop(factorization, ord, value, Tail(ds),
                                       IF valid.value THEN found \cup {p} ELSE found)

build_primes_set_for_divisors(factorization, ord, ds) ==
    build_primes_set_loop(factorization, ord, Factorization_int(factorization), ds, {})

(* _generate_divisors_less_than: the for loop over i from i on, then the generator *)
RECURSIVE generate_divisors_loop(_, _, _, _)
RECURSIVE generate_divisors_less_than(_, _)
generate_divisors_loop(factorization, limit, i, acc) ==
    LET prime == factorization[1][1]
        exponent == factorization[1][2]
        partial_value == prime ^ i
    IN IF i > exponent THEN acc
       ELSE IF partial_value >= limit THEN acc
       ELSE LET partial_factorization == Factorization(Tail(factorization)).value
                partial_divisors == generate_divisors_less_than(partial_factorization,
                                                                limit \div partial_value)
                row == [j \in 1..Len(partial_divisors) |->
                            Factorization(dict_of_items(<<>>,
                                zip(<<prime>> \o keys(partial_divisors[j]),
                                    <<i>> \o values(partial_divisors[j])))).value]
            IN generate_divisors_loop(factorization, limit, i + 1, acc \o row)

generate_divisors_less_than(factorization, limit) ==
    IF Len(factorization) = 0
    THEN IF Factorization_int(factorization) < limit THEN <<factorization>> ELSE <<>>
    ELSE generate_divisors_loop(factorization, limit,
                                IF factorization[1][1] = 2 THEN 1 ELSE 0, <<>>)

(* build_primes_set(factorization, order): the divisors go through map(int, ...) *)
varient_build_primes_set(factorization, ord) ==
    LET limit == int_root(Factorization_int(factorization), ord)
        ds == generate_divisors_less_than(factorization, limit)
    IN build_primes_set_for_divisors(factorization, ord,
            [j \in 1..Len(ds) |-> IntObject(Factorization_int(ds[j]))])

build_primes_set_partition(factorization, ord, partition_index, count) ==
    LET ds == PartitionedDivisorsIterator(factorization, partition_index, count)
    IN IF ~Returned(ds) THEN ds
       ELSE build_primes_set_for_divisors(factorization, ord,
                [j \in 1..Len(ds.value) |-> FactorizationObject(ds.value[j])])

(* the calls is_prime(p, divisor) that the for loop of
   _build_primes_set_for_divisors makes through _is_valid_prime: the and-chain
   reaches is_prime only after its first two operands, and an exception ends
   the loop *)
RECURSIVE build_primes_set_calls(_, _, _, _)
build_primes_set_calls(factorization, ord, value, ds) ==
    IF ds = <<>> THEN {}
    ELSE LET p == object_int(Head(ds)) + 1
             reached == /\ ~has_prime_divisor(factorization, p)
                        /\ \A r \in 1..ord : value % (p ^ r - 1) = 0
             valid == is_valid_prime(p, Head(ds), factorization, ord, value)
             here == IF reached THEN {[n |-> p, factorization |-> Head(ds)]} ELSE {}
         IN IF ~Returned(valid) THEN here
            ELSE here \cup build_primes_set_calls(factorization, ord, value, Tail(ds))

varient_build_primes_set_calls(factorization, ord) ==
    LET limit == int_root(Factorization_int(factorization), ord)
        ds == generate_divisors_less_than(factorization, limit)
    IN build_primes_set_calls(factorization, ord, Factorization_int(factorization),
            [j \in 1..Len(ds) |-> IntObject(Factorization_int(ds[j]))])

build_primes_set_partition_calls(factorization, ord, partition_index, count) ==
    LET ds == PartitionedDivisorsIterator(factorization, partition_index, count)
    IN IF ~Returned(ds) THEN {}
       ELSE build_primes_set_calls(factorization, ord, Factorization_int(factorization),
                [j \in 1..Len(ds.value) |-> FactorizationObject(ds.value[j])])

(* ---- DivisorsIterator as a state machine ---- *)
StopsSoFar == Cardinality({i \in 1..Len(returned) : Raised(returned[i], "StopIteration")})

DivIdle ==
    /\ primes = <<>>
    /\ exponents = <<>>
    /\ divisor_exponents = None
    /\ returned = <<>>

PartitionIdle ==
    /\ pd_factorization = <<>>
    /\ partitions_count = 0
    /\ partition_outcome = <<>>

FKIdle == fk_frame = [pc |-> "idle"]

ErdosIdle ==
    /\ erdos_input = <<>>
    /\ base_primes = Pending
    /\ order_primes = Pending
    /\ partition_primes = <<>>
    /\ prover_calls = {}

FactorIdle == factor_frame = [pc |-> "idle"]

FromFactorsIdle == ff_frame = [pc |-> "idle"]

PrimorialIdle == primorial_frame = [pc |-> "idle"]

ProductIdle == modular_product = [made |-> "no"]

OrderIdle == order_frame = [pc |-> "idle"]

GenerateIdle == generate_frame = [pc |-> "idle"]

CallsIdle == FromFactorsIdle /\ PrimorialIdle /\ ProductIdle /\ OrderIdle /\ GenerateIdle

CoreIdle == DivIdle /\ PartitionIdle /\ FKIdle /\ ErdosIdle /\ FactorIdle

(* DivisorsIterator(Factorization(value=v)) *)
InitDivisors ==
    \E v \in 1..MaxValue :
        /\ PartitionIdle
        /\ FKIdle
        /\ ErdosIdle
        /\ FactorIdle
        /\ CallsIdle
        /\ primes = keys(FactorizationOfValue(v).value)
        /\ exponents = values(FactorizationOfValue(v).value)
        /\ divisor_exponents = None
        /\ returned = <<>>

NextFirst ==
    /\ divisor_exponents = None
    /\ LET r == DivisorsIterator_next(primes, exponents, divisor_exponents)
       IN /\ divisor_exponents' = r.dexp
          /\ returned' = Append(returned, r.result)
    /\ UNCHANGED <<primes, exponents>>

NextAdvance ==
    /\ divisor_exponents # None
    /\ StopsSoFar <= MaxExtraCalls
    /\ LET r == DivisorsIterator_next(primes, exponents, divisor_exponents)
       IN /\ Returned(r.result)
          /\ divisor_exponents' = r.dexp
          /\ returned' = Append(returned, r.result)
    /\ UNCHANGED <<primes, exponents>>

NextExhausted ==
    /\ divisor_exponents # None
    /\ StopsSoFar <= MaxExtraCalls
    /\ LET r == DivisorsIterator_next(primes, exponents, divisor_exponents)
       IN /\ Raised(r.result, "StopIteration")
          /\ divisor_exponents' = r.dexp
          /\ returned' = Append(returned, r.result)
    /\ UNCHANGED <<primes, exponents>>

NextDivisors == (NextFirst \/ NextAdvance \/ NextExhausted) /\ UNCHANGED <<vars_pd, fk_frame, vars_erdos, factor_frame, vars_calls>>

SpecDivisors == InitDivisors /\ [][NextDivisors]_vars

(* the factorization the iterator was built from *)
Source == zip(primes, exponents)

FirstStop == CHOOSE i \in 1..Len(returned) :
                /\ Raised(returned[i], "StopIteration")
                /\ \A j \in 1..(i - 1) : ~Raised(returned[j], "StopIteration")

(* C3: up to its first StopIteration the iterator returns exactly
   divisors_count(F) factorizations, pairwise distinct, each a divisor of F,
   the first being 1 (the empty mapping) and the last F itself. *)
C3_DivisorsEnumerated ==
    StopsSoFar >= 1 =>
        LET k == FirstStop - 1
        IN /\ k = divisors_count(Source)
           /\ \A i \in 1..k : Returned(returned[i])
           /\ \A i, j \in 1..k : i # j => returned[i].value # returned[j].value
           /\ \A i \in 1..k : Factorization_int(Source) % Factorization_int(returned[i].value) = 0
           /\ returned[1].value = <<>>
           /\ returned[k].value = Source

C3_Witness ==
    /\ StopsSoFar = 1
    /\ Len(primes) = 2
    /\ exponents = <<2, 2>>

(* C4: once __next__ has raised StopIteration, every later __next__ on the
   same iterator raises StopIteration too. *)
C4_StaysExhausted ==
    \A i, j \in 1..Len(returned) :
        (i < j /\ Raised(returned[i], "StopIteration")) => Raised(returned[j], "StopIteration")

(* every counter is within 0..its maximal exponent, so that the counters
   encode a divisor of the source *)
CountersEncodeDivisor ==
    divisor_exponents # None =>
        LET d == divisor_exponents[1]
        IN /\ Len(d) = Len(exponents)
           /\ \A i \in 1..Len(d) : 0 <= d[i] /\ d[i] <= exponents[i]
           /\ Factorization_int(Source) % Factorization_int(build_factors(primes, d)) = 0

(* a __next__ after the first and before exhaustion that returns a divisor
   is one odometer step *)
OdometerStep ==
    (/\ divisor_exponents # None
     /\ StopsSoFar = 0
     /\ Len(returned') = Len(returned) + 1
     /\ Returned(returned'[Len(returned')]))
    => LET d == divisor_exponents[1]
           e == divisor_exponents'[1]
           low == CHOOSE i \in 1..Len(d) : d[i] < exponents[i] /\ \A j \in 1..(i - 1) : d[j] = exponents[j]
       IN /\ \E i \in 1..Len(d) : d[i] < exponents[i]
          /\ e[low] = d[low] + 1
          /\ \A j \in 1..(low - 1) : e[j] = 0
          /\ \A j \in (low + 1)..Len(d) : e[j] = d[j]

(* C16: every __next__ after the first and before exhaustion increments the
   lowest-index counter that is below its maximum, resets the lower-index
   counters to zero and leaves the higher-index ones alone; in every state
   each counter lies in 0..max exponent and the counters encode a divisor of
   the source. *)
C16_OdometerOrder == [][OdometerStep]_vars /\ []CountersEncodeDivisor

C16_Witness ==
    /\ StopsSoFar = 0
    /\ exponents = <<2, 1>>
    /\ divisor_exponents = Some(<<0, 1>>)
    /\ Len(returned) = 4

(* ---- PartitionedDivisorsIterator: every partition of one factorization ---- *)
InitPartition ==
    \E v \in 1..MaxValue, count \in 1..MaxPartitions :
        /\ DivIdle
        /\ FKIdle
        /\ ErdosIdle
        /\ FactorIdle
        /\ CallsIdle
        /\ pd_factorization = FactorizationOfValue(v).value
        /\ partitions_count = count
        /\ partition_outcome = [k \in 1..count |-> Pending]

(* list(PartitionedDivisorsIterator(pd_factorization, index, partitions_count)) *)
RunPartition(index) ==
    /\ partition_outcome[index + 1] = Pending
    /\ partition_outcome' = [partition_outcome EXCEPT ![index + 1] =
            PartitionedDivisorsIterator(pd_factorization, index, partitions_count)]
    /\ UNCHANGED <<pd_factorization, partitions_count>>

NextPartition ==
    (\E index \in 0..(partitions_count - 1) : RunPartition(index)) /\ UNCHANGED <<vars_div, fk_frame, vars_erdos, factor_frame, vars_calls>>

SpecPartition == InitPartition /\ [][NextPartition]_vars

AllPartitionsRun == \A k \in 1..partitions_count : partition_outcome[k] # Pending

(* C1: for every factorization F and every K >= 1 the K partitions list
   pairwise disjoint sets of divisors, without duplicates, whose union is the
   set of divisors listed by DivisorsIterator(F). *)
C1_PartitionsCoverDivisors ==
    AllPartitionsRun =>
        /\ \A k \in 1..partitions_count : Returned(partition_outcome[k])
        /\ \A k \in 1..partitions_count :
              Cardinality(Range(partition_outcome[k].value)) = Len(partition_outcome[k].value)
        /\ \A k, l \in 1..partitions_count :
              k # l => Range(partition_outcome[k].value) \cap Range(partition_outcome[l].value) = {}
        /\ UNION {Range(partition_outcome[k].value) : k \in 1..partitions_count}
              = Range(divisors(pd_factorization))

(* C2: building and listing a partition never fails when K = 1 (for every F,
   F = 1 included) nor when K exceeds the number of divisors of F; in the
   latter case the surplus partitions are empty sequences. *)
C2_DegenerateNeverFails ==
    \A k \in 1..partitions_count :
        (/\ partition_outcome[k] # Pending
         /\ (partitions_count = 1 \/ partitions_count > divisors_count(pd_factorization)))
        => /\ Returned(partition_outcome[k])
           /\ k > divisors_count(pd_factorization) => partition_outcome[k].value = <<>>

(* ---- fellows_koblitz.is_prime(n, Factorization(value=n - 1)), step by step ---- *)
(* the exact factorization of n - 1; for n < 2 there is none and the
   argument is not looked at *)
FactorizationOfPredecessor(n) ==
    IF n >= 2 THEN FactorizationOfValue(n - 1).value ELSE <<>>

InitFK == DivIdle /\ PartitionIdle /\ ErdosIdle /\ FactorIdle /\ CallsIdle /\ FKIdle

(* the call, up to the for loop: the early returns happen here *)
FKCall(n) ==
    /\ fk_frame.pc = "idle"
    /\ fk_frame' = is_prime_begin(n, FactorizationObject(FactorizationOfPredecessor(n)))

(* one more witness a = fk_frame.a has passed *)
FKWitness ==
    /\ fk_frame.pc = "for"
    /\ is_prime_step(fk_frame).pc = "for"
    /\ fk_frame' = is_prime_step(fk_frame)

(* the call returns or raises *)
FKReturn ==
    /\ fk_frame.pc = "for"
    /\ is_prime_step(fk_frame).pc = "done"
    /\ fk_frame' = is_prime_step(fk_frame)

NextFK ==
    ((\E n \in (0 - MaxNegated)..MaxN : FKCall(n)) \/ FKWitness \/ FKReturn)
    /\ UNCHANGED <<vars_div, vars_pd, vars_erdos, factor_frame, vars_calls>>

SpecFK == InitFK /\ [][NextFK]_vars

(* the call is inside its for loop: exactly then FKWitness or FKReturn is
   enabled, is_prime_step being total and changing the frame *)
Running == fk_frame.pc = "for"

(* a running call keeps executing (the code is sequential): weak fairness of
   the step FKWitness \/ FKReturn, with Running for its enabling condition *)
SpecFKLive == SpecFK /\ ([]<>~Running \/ []<><<FKWitness \/ FKReturn>>_fk_frame)

(* C5: for every prime n with the exact factorization of n - 1, is_prime
   returns True. *)
C5_PrimesAccepted ==
    (fk_frame.pc = "done" /\ IsPrime(fk_frame.n)) => fk_frame.result = Return(TRUE)

C5_Witness ==
    /\ fk_frame.pc = "done"
    /\ fk_frame.n = 31
    /\ fk_frame.factorization.factors = <<<<2, 1>>, <<3, 1>>, <<5, 1>>>>
    /\ fk_frame.a = 12
    /\ fk_frame.result = Return(TRUE)

(* C6: for every composite n and every n < 2, with the exact factorization
   of n - 1, is_prime returns False; in particular for n = 341. *)
C6_CompositesRejected ==
    (fk_frame.pc = "done" /\ ~IsPrime(fk_frame.n)) => fk_frame.result = Return(FALSE)

C6_Witness ==
    /\ fk_frame.pc = "done"
    /\ fk_frame.n = 341
    /\ fk_frame.factorization.factors = <<<<2, 2>>, <<5, 1>>, <<17, 1>>>>
    /\ fk_frame.result = Return(FALSE)

(* every exponent g of the order found last is within 0..e, e the exponent of
   the same prime in n - 1: its while loop took at most e steps *)
OrderExponentsBounded ==
    (fk_frame.pc # "idle" /\ fk_frame.order_factorization # None) =>
        LET found == fk_frame.order_factorization[1]
            given == fk_frame.factorization.factors
        IN \A i \in 1..Len(found) :
              /\ has_key(given, found[i][1])
              /\ 0 <= found[i][2]
              /\ found[i][2] <= dict_get(given, found[i][1], 0)

(* the return after the for loop finds h assigned *)
FinalComparisonHasH ==
    (fk_frame.pc = "for" /\ fk_frame.a >= log_squared_floor(fk_frame.n) + 1) => fk_frame.h # None

ReturnsBoolean ==
    fk_frame.pc = "done" => fk_frame.result \in {Return(TRUE), Return(FALSE)}

(* C19: for every integer n with the exact factorization of n - 1, is_prime
   terminates with a boolean: every order-exponent loop for a prime q with
   exponent e in n - 1 ends after at most e steps (0 <= g <= e), and the
   final comparison is never reached with h unset. *)
C19_TerminatesWithBoolean ==
    /\ [](OrderExponentsBounded /\ FinalComparisonHasH /\ ReturnsBoolean)
    /\ (fk_frame.pc = "for") ~> (fk_frame.pc = "done")

C19_Witness ==
    /\ fk_frame.pc = "for"
    /\ fk_frame.n = 17
    /\ fk_frame.a = 4
    /\ fk_frame.order_factorization = Some(<<<<2, 4>>>>)
    /\ fk_frame.h = Some(<<<<2, 4>>>>)

(* ---- the prime-set constructions on one base factorization ---- *)
InitErdos ==
    \E v \in (1..MaxL) \cup {240}, ord \in 1..MaxOrder, count \in 1..MaxErdosPartitions :
        /\ DivIdle
        /\ PartitionIdle
        /\ FKIdle
        /\ FactorIdle
        /\ CallsIdle
        /\ erdos_input = [factorization |-> FactorizationOfValue(v).value,
                          order |-> ord, partitions_count |-> count]
        /\ base_primes = Pending
        /\ order_primes = Pending
        /\ partition_primes = [k \in 1..count |-> Pending]
        /\ prover_calls = {}

BuildPrimesSetBase ==
    /\ base_primes = Pending
    /\ base_primes' = Return(construct_carmichael_number(erdos_input.factorization,
            [found \in {erdos_build_primes_set(erdos_input.factorization)} |-> found]))
    /\ UNCHANGED <<erdos_input, order_primes, partition_primes, prover_calls>>

BuildPrimesSet ==
    /\ order_primes = Pending
    /\ order_primes' = varient_build_primes_set(erdos_input.factorization, erdos_input.order)
    /\ prover_calls' = prover_calls \cup
            varient_build_primes_set_calls(erdos_input.factorization, erdos_input.order)
    /\ UNCHANGED <<erdos_input, base_primes, partition_primes>>

BuildPrimesSetPartition(partition_index) ==
    /\ partition_primes[partition_index + 1] = Pending
    /\ partition_primes' = [partition_primes EXCEPT ![partition_index + 1] =
            build_primes_set_partition(erdos_input.factorization, erdos_input.order,
                                       partition_index, erdos_input.partitions_count)]
    /\ prover_calls' = prover_calls \cup
            build_primes_set_partition_calls(erdos_input.factorization, erdos_input.order,
                                             partition_index, erdos_input.partitions_count)
    /\ UNCHANGED <<erdos_input, base_primes, order_primes>>

NextErdos ==
    (\/ BuildPrimesSetBase
     \/ BuildPrimesSet
     \/ \E i \in 0..(erdos_input.partitions_count - 1) : BuildPrimesSetPartition(i))
    /\ UNCHANGED <<vars_div, vars_pd, fk_frame, factor_frame, vars_calls>>

SpecErdos == InitErdos /\ [][NextErdos]_vars

L == Factorization_int(erdos_input.factorization)

(* C18: in both higher-order constructors every call is_prime(p, f) is made
   with f a Factorization whose value is p - 1. *)
C18_ProverGetsFactorization ==
    \A call \in prover_calls :
        /\ call.factorization.type = "Factorization"
        /\ Factorization_int(call.factorization.factors) = call.n - 1

(* C7: the base build_primes_set(L) is exactly the set of primes p with
   (p - 1) dividing L and p not a prime factor of L. *)
C7_BasePrimesExact ==
    base_primes # Pending =>
        base_primes = Return({p \in 2..(L + 1) : IsPrime(p) /\ L % (p - 1) = 0 /\ L % p # 0})

C7_Witness ==
    /\ base_primes # Pending
    /\ L = 48
    /\ base_primes.value = {5, 7, 13, 17}

(* C12 as claimed: for L = 240 the prime set handed to the selector contains
   3, 11 and 17, so that a selector can return {3, 11, 17}. *)
C12_SelectorCanPick561 ==
    (L = 240 /\ base_primes # Pending) => {3, 11, 17} \subseteq base_primes.value

(* C12 as amended: for L = 240 the prime set handed to the selector is
   {7, 11, 13, 17, 31, 41, 61, 241}: it contains 11 and 17 but not 3, which
   divides L, so no selector can return {3, 11, 17}. *)
C12_BaseSetOf240 ==
    (L = 240 /\ base_primes # Pending) =>
        /\ base_primes = Return({7, 11, 13, 17, 31, 41, 61, 241})
        /\ {11, 17} \subseteq base_primes.value
        /\ 3 \notin base_primes.value

C12_Witness ==
    /\ erdos_input.factorization = <<<<2, 4>>, <<3, 1>>, <<5, 1>>>>
    /\ base_primes # Pending
    /\ 17 \in base_primes.value

(* floor(L^(1/k)) *)
FloorRoot(n, k) == CHOOSE s \in 0..n : s ^ k <= n /\ (s + 1) ^ k > n

(* the set the higher-order construction is specified to return *)
OrderPrimes(bound) ==
    {p \in 2..(L + 1) :
        /\ L % (p - 1) = 0
        /\ p - 1 < bound
        /\ L % p # 0
        /\ \A r \in 1..erdos_input.order : L % (p ^ r - 1) = 0
        /\ IsPrime(p)}

(* C8: build_primes_set(L, order) returns exactly the p = d + 1 over the
   divisors d of L with d < floor(L^(1/order)) such that p does not divide L,
   L mod (p^r - 1) = 0 for r = 1..order, and p is prime. *)
C8_OrderPrimesExact ==
    order_primes # Pending =>
        order_primes = Return(OrderPrimes(FloorRoot(L, erdos_input.order)))

AllPrimePartitionsBuilt ==
    \A k \in 1..erdos_input.partitions_count : partition_primes[k] # Pending

(* C9: the union over the K partitions of build_primes_set_partition(L,
   order, i, K) equals build_primes_set(L, order), and the partitions' sets
   are pairwise disjoint. *)
C9_PartitionsMakeWhole ==
    (AllPrimePartitionsBuilt /\ order_primes # Pending) =>
        /\ Returned(order_primes)
        /\ \A k \in 1..erdos_input.partitions_count : Returned(partition_primes[k])
        /\ UNION {partition_primes[k].value : k \in 1..erdos_input.partitions_count}
              = order_primes.value
        /\ \A k, l \in 1..erdos_input.partitions_count :
              k # l => partition_primes[k].value \cap partition_primes[l].value = {}

(* ---- Factorization(value=n): trial_division.factor(n), step by step ---- *)
InitFactor == DivIdle /\ PartitionIdle /\ FKIdle /\ ErdosIdle /\ CallsIdle /\ FactorIdle

(* the call: n < 1 raises at once *)
FactorCall(n) ==
    /\ factor_frame.pc = "idle"
    /\ factor_frame' = factor_begin(n)

(* the while loop on d = 2 *)
FactorTwos ==
    /\ factor_frame.pc = "twos"
    /\ factor_frame' = factor_step(factor_frame)

(* the while loop on odd d *)
FactorOdds ==
    /\ factor_frame.pc = "odds"
    /\ factor_frame' = factor_step(factor_frame)

(* what is left of n after the loops, and the return *)
FactorRest ==
    /\ factor_frame.pc = "rest"
    /\ factor_frame' = factor_step(factor_frame)

NextFactor ==
    ((\E n \in (0 - MaxNegated)..MaxFactored : FactorCall(n)) \/ FactorTwos \/ FactorOdds \/ FactorRest)
    /\ UNCHANGED <<vars_div, vars_pd, fk_frame, vars_erdos, vars_calls>>

SpecFactor == InitFactor /\ [][NextFactor]_vars

(* C10: for every positive integer n, int(Factorization(value=n)) = n, and
   n = 1 gives the empty mapping. *)
C10_FactorRoundTrip ==
    (factor_frame.pc = "done" /\ factor_frame.value >= 1) =>
        /\ Returned(factor_frame.result)
        /\ Factorization_int(factor_frame.result.value) = factor_frame.value
        /\ factor_frame.value = 1 => factor_frame.result.value = <<>>

C10_Witness ==
    /\ factor_frame.pc = "done"
    /\ factor_frame.value = 90
    /\ factor_frame.result = Return(<<<<2, 1>>, <<3, 2>>, <<5, 1>>>>)

(* ---- Factorization(factors=m) on an arbitrary mapping ---- *)
(* the dicts of at most MaxItems items, in every insertion order *)
Mappings ==
    LET item == (0..MaxKey) \X ((0 - MaxNegated)..MaxExponent)
    IN {m \in UNION {[1..k -> item] : k \in 0..MaxItems} :
            \A i, j \in 1..Len(m) : i # j => m[i][1] # m[j][1]}

InitFromFactors == CoreIdle /\ CallsIdle

FromFactors(m) ==
    /\ ff_frame.pc = "idle"
    /\ ff_frame' = [pc |-> "done", factors |-> m, result |-> Factorization(m)]

NextFromFactors ==
    /\ ff_frame.pc = "idle"
    /\ \E m \in Mappings : FromFactors(m)
    /\ UNCHANGED <<vars_core, primorial_frame, modular_product, order_frame, generate_frame>>

SpecFromFactors == InitFromFactors /\ [][NextFromFactors]_vars

(* C11: Factorization(factors=m) raises exactly when some key of m is not
   prime or some exponent is negative; otherwise the stored mapping holds
   exactly the items of m with exponent >= 1, by ascending prime. *)
C11_FromFactorsNormalised ==
    ff_frame.pc = "done" =>
        LET m == ff_frame.factors
            r == ff_frame.result
        IN /\ Raised(r, "ValueError") <=> \E i \in 1..Len(m) : ~IsPrime(m[i][1]) \/ m[i][2] < 0
           /\ ~Raised(r, "ValueError") =>
                /\ Returned(r)
                /\ Range(r.value) = {it \in Range(m) : it[2] >= 1}
                /\ \A i, j \in 1..Len(r.value) : i < j => r.value[i][1] < r.value[j][1]

C11_Witness ==
    /\ ff_frame.pc = "done"
    /\ ff_frame.factors = <<<<5, 1>>, <<3, 2>>>>
    /\ ff_frame.result = Return(<<<<3, 2>>, <<5, 1>>>>)

(* ---- find_largest_primorial_less_than(n), one prime per step ---- *)
InitPrimorial == CoreIdle /\ CallsIdle

PrimorialCall(n) ==
    /\ primorial_frame.pc = "idle"
    /\ primorial_frame' = primorial_begin(n)

PrimorialFor ==
    /\ primorial_frame.pc = "for"
    /\ primorial_frame.primes # <<>>
    /\ primorial_frame' = primorial_step(primorial_frame)

PrimorialReturn ==
    /\ primorial_frame.pc = "for"
    /\ primorial_frame.primes = <<>>
    /\ primorial_frame' = primorial_step(primorial_frame)

NextPrimorial ==
    ((\E n \in 3..MaxPrimorialArg : PrimorialCall(n)) \/ PrimorialFor \/ PrimorialReturn)
    /\ UNCHANGED <<vars_core, ff_frame, modular_product, order_frame, generate_frame>>

SpecPrimorial == InitPrimorial /\ [][NextPrimorial]_vars

(* the primes of the largest product 2 * 3 * 5 * ... of the first k >= 1
   primes that is below n, given the primes ps still to take *)
RECURSIVE LargestPrimorialBelow(_, _, _, _)
LargestPrimorialBelow(n, ps, product, taken) ==
    IF ps = <<>> \/ product * Head(ps) >= n THEN taken
    ELSE LargestPrimorialBelow(n, Tail(ps), product * Head(ps), Append(taken, <<Head(ps), 1>>))

(* C13: for every n >= 3, find_largest_primorial_less_than(n) returns the
   factorization of the largest primorial, the product of the first k >= 1
   primes, that is less than n. *)
C13_LargestPrimorial ==
    primorial_frame.pc = "done" =>
        primorial_frame.result =
            Return(LargestPrimorialBelow(primorial_frame.n,
                        SetToSeq({p \in 2..primorial_frame.n : IsPrime(p)}), 1, <<>>))

(* ---- ModularProduct: construction and multiplication ---- *)
InitProduct == CoreIdle /\ CallsIdle

FactorLists == UNION {[1..k -> 0..MaxFactor] : k \in 0..MaxFactors}

(* ModularProduct(modulus): the factors argument is left out *)
NewProductDefault(modulus) ==
    /\ modular_product.made = "no"
    /\ modular_product' = [made |-> "default", outcome |-> ModularProduct(modulus, None)]

(* ModularProduct(modulus, factors) *)
NewProduct(modulus, factors) ==
    /\ modular_product.made = "no"
    /\ modular_product' = [made |-> "factors", outcome |-> ModularProduct(modulus, Some(factors))]

(* product * n *)
MulInt(n) ==
    /\ modular_product.made # "no"
    /\ Returned(modular_product.outcome)
    /\ Len(modular_product.outcome.value.factors) < MaxFactors
    /\ modular_product' = [modular_product EXCEPT !.outcome = mul_int(modular_product.outcome.value, n)]

(* product * ModularProduct(modulus, factors) *)
MulProduct(modulus, factors) ==
    /\ modular_product.made # "no"
    /\ Returned(modular_product.outcome)
    /\ Len(modular_product.outcome.value.factors) + Len(factors) <= MaxFactors
    /\ modular_product' = [modular_product EXCEPT !.outcome =
            mul_modular_product(modular_product.outcome.value, ModularProduct(modulus, Some(factors)).value)]

NextProduct ==
    (\/ \E modulus \in 1..MaxModulus : NewProductDefault(modulus)
     \/ \E modulus \in 1..MaxModulus, factors \in FactorLists : NewProduct(modulus, factors)
     \/ \E n \in 0..MaxFactor : MulInt(n)
     \/ \E modulus \in 1..MaxModulus, factors \in FactorLists : MulProduct(modulus, factors))
    /\ UNCHANGED <<vars_core, ff_frame, primorial_frame, order_frame, generate_frame>>

SpecProduct == InitProduct /\ [][NextProduct]_vars

(* C14: ModularProduct(modulus) with the factors argument left out succeeds
   and gives a product with an empty factor list whose value is the empty
   product, which can then be multiplied. *)
C14_DefaultFactorsConstruct ==
    modular_product.made = "default" =>
        /\ Returned(modular_product.outcome)
        /\ modular_product.outcome.value.factors = <<>>
        /\ modular_product.outcome.value.value = 1

(* ---- order(a, n, Factorization(value=n - 1)) ---- *)
InitOrder == CoreIdle /\ CallsIdle

(* the call, for odd n >= 3 and a with a^(n-1) = 1 (mod n), as is_prime makes it *)
OrderCall(a, n) ==
    /\ order_frame.pc = "idle"
    /\ n % 2 = 1
    /\ pow(a, n - 1, n) = 1
    /\ order_frame' = [pc |-> "done", a |-> a, n |-> n,
                       result |-> order(a, n, FactorizationObject(FactorizationOfPredecessor(n)))]

NextOrder ==
    /\ order_frame.pc = "idle"
    /\ \E n \in 3..MaxOrderModulus, a \in 1..MaxOrderBase : OrderCall(a, n)
    /\ UNCHANGED <<vars_core, ff_frame, primorial_frame, modular_product, generate_frame>>

SpecOrder == InitOrder /\ [][NextOrder]_vars

(* a^k mod n by k multiplications *)
RECURSIVE PowerMod(_, _, _)
PowerMod(a, k, n) == IF k = 0 THEN 1 % n ELSE (PowerMod(a, k - 1, n) * (a % n)) % n

(* the least k >= 1 with a^k = 1 (mod n), for a coprime to n *)
MultiplicativeOrder(a, n) ==
    CHOOSE k \in 1..n : PowerMod(a, k, n) = 1 /\ \A j \in 1..(k - 1) : PowerMod(a, j, n) # 1

(* C15: for odd n >= 3, a with a^(n-1) = 1 (mod n) and the exact
   factorization of n - 1, the value of order(a, n, factorization) is the
   multiplicative order of a modulo n. *)
C15_OrderIsMultiplicativeOrder ==
    order_frame.pc = "done" =>
        /\ Returned(order_frame.result)
        /\ Factorization_int(order_frame.result.value)
             = MultiplicativeOrder(order_frame.a, order_frame.n)

C15_Witness ==
    /\ order_frame.pc = "done"
    /\ order_frame.a = 2
    /\ order_frame.n = 31
    /\ order_frame.result = Return(<<<<5, 1>>>>)

(* ---- _generate_divisors_less_than as one call ---- *)
InitGenerate == CoreIdle /\ CallsIdle

(* list(_generate_divisors_less_than(Factorization(value=v), limit)) *)
GenerateCall(v, limit) ==
    /\ generate_frame.pc = "idle"
    /\ LET factorization == FactorizationOfValue(v).value
       IN generate_frame' = [pc |-> "done", factorization |-> factorization, limit |-> limit,
                             result |-> generate_divisors_less_than(factorization, limit)]

NextGenerate ==
    /\ generate_frame.pc = "idle"
    /\ \E v \in 1..MaxGenerateValue, limit \in 1..MaxLimit : GenerateCall(v, limit)
    /\ UNCHANGED <<vars_core, ff_frame, primorial_frame, modular_product, order_frame>>

SpecGenerate == InitGenerate /\ [][NextGenerate]_vars

(* the divisors d of f with d < limit, even ones only when 2 is a prime of f *)
DivisorsBelow(f, limit) ==
    {d \in 1..Factorization_int(f) :
        /\ Factorization_int(f) % d = 0
        /\ d < limit
        /\ (has_key(f, 2) => d % 2 = 0)}

(* C17: for every Factorization F and limit >= 1 the generator yields, each
   exactly once, every divisor d of F with d < limit (only those with 2 to an
   exponent of at least 1 when 2 is a prime of F) and nothing else. *)
C17_YieldsDivisorsBelowLimit ==
    generate_frame.pc = "done" =>
        LET yielded == [j \in 1..Len(generate_frame.result) |-> Factorization_int(generate_frame.result[j])]
        IN /\ \A j, k \in 1..Len(yielded) : yielded[j] = yielded[k] => j = k
           /\ Range(yielded) = DivisorsBelow(generate_frame.factorization, generate_frame.limit)

====
